---- MODULE Spec2Model ----
(***************************************************************************)
(* Model of the client-side state engine of the support dashboard:         *)
(*   - TicketDashboard.tsx : ticket collection, filter, metrics, refresh,  *)
(*                           periodic timer, override                      *)
(*   - TicketTable.tsx     : override modal                                *)
(*   - DecisionTrace.tsx   : trace fetch / synthesis and replay animation  *)
(* Confidence values are kept in hundredths (0.89 is 89).                  *)
(***************************************************************************)
EXTENDS Integers, Sequences, FiniteSets, TLC

VARIABLES
    \* TicketDashboard.tsx state
    tickets, filter, loading, error, metrics,
    inflight,        \* ticket queries awaiting a response, counted per captured filter
    posts,           \* override POSTs awaiting a response, counted per captured filter
    timers,          \* armed setInterval handles, each with the filter its callback captured
    mounted,         \* the dashboard component is mounted
    \* TicketTable.tsx state
    overrideModal, newResponse,
    \* the handler that ran last and what it met
    last,
    \* DecisionTrace.tsx state
    ticket,          \* the ticket prop
    decisionSteps, traceLoading, showFullTrace, activeNode, isAnimating,
    animationRef,    \* the armed replay interval: its currentNode and the length it captured
    traceFetches,    \* trace queries awaiting a response, counted per captured ticket
    traceLast,       \* the handler of the trace player that ran last and what it met
    \* MetricsAggregator called on its own
    aggInput, aggregated, aggOp,
    \* generateMockDecisions called on its own
    synthTicket,     \* the ticket handed to it
    synthSteps       \* the steps it returned, <<>> before the call

dashVars == <<tickets, filter, loading, error, metrics, inflight, posts, timers,
              mounted, overrideModal, newResponse, last>>

traceVars == <<ticket, decisionSteps, traceLoading, showFullTrace, activeNode, isAnimating,
               animationRef, traceFetches, traceLast>>

aggVars == <<aggInput, aggregated, aggOp>>

synthVars == <<synthTicket, synthSteps>>

vars == <<dashVars, traceVars, aggVars, synthVars>>

-----------------------------------------------------------------------------
(* Bounds of the model *)

MaxPending == 2       \* ticket queries and override POSTs in flight at once
MaxRespLen == 1       \* tickets in one API response
MaxTraceFetches == 2  \* trace queries in flight at once
MaxApiSteps == 2      \* steps in one answer of the trace API
MaxAggLen == 3        \* tickets in a collection handed to the aggregator alone
MaxClock == 2         \* readings of Date.now() the synthesizer is called at

-----------------------------------------------------------------------------
(* Data *)

Missing == "missing"  \* an optional field that is absent (undefined)
NoError == "null"     \* error state null
NoConfidence == -1    \* a ticket whose confidence field is absent

Statuses == {"pending", "auto_resolved", "escalated", "in_progress"}
Filters == {"all", "pending", "auto_resolved", "escalated"}

Tkt(id, st, pr, cat, sen, conf, resp, reason) ==
    [id |-> id, status |-> st, priority |-> pr, category |-> cat, sentiment |-> sen,
     confidence |-> conf, response |-> resp, escalation_reason |-> reason]

generateDemoTickets ==
    << Tkt("tkt-8f2a9c3d", "auto_resolved", "high", "Account Access", "negative", 89, "text", Missing),
       Tkt("tkt-4b7e1f8a", "escalated", "critical", "Billing", "negative", 45, Missing,
           "Financial matter requires human verification"),
       Tkt("tkt-9d3c5e2b", "auto_resolved", "low", "Feature Request", "positive", 94, "text", Missing),
       Tkt("tkt-6a1d8c4f", "in_progress", "high", "Technical", "neutral", 72, Missing, Missing),
       Tkt("tkt-2e9f7b5c", "auto_resolved", "medium", "How-to", "neutral", 96, "text", Missing),
       Tkt("tkt-7c4a2e8d", "pending", "high", "Integration", "negative", 68, Missing, Missing) >>

\* Tickets the ticket API may return
ApiTickets ==
    { Tkt("api-1", "auto_resolved", "medium", "How-to", "neutral", 90, "text", Missing),
      Tkt("api-2", "pending", "low", "Technical", "neutral", NoConfidence, Missing, Missing) }

RECURSIVE SeqsNoDup(_, _)
SeqsNoDup(S, n) ==
    IF n = 0 THEN {<<>>}
    ELSE LET shorter == SeqsNoDup(S, n - 1)
         IN  shorter \cup { Append(s, x) : s \in { q \in shorter : Len(q) = n - 1 },
                                           x \in S }

NoDup(s) == \A i, j \in DOMAIN s : s[i] = s[j] => i = j

\* Bodies of a 2xx answer of GET /api/tickets: tickets is absent or a list
ApiTicketLists == { s \in SeqsNoDup(ApiTickets, MaxRespLen) : NoDup(s) }

-----------------------------------------------------------------------------
(* MetricsAggregator *)

\* Math.floor in place of Math.round
MathRoundDown(n, d) == n \div d

\* Math.round(n / d) for n >= 0, d > 0: halves round up
MathRound(n, d) == (2 * n + d) \div (2 * d)

CountStatus(ticketData, st) ==
    Cardinality({ i \in DOMAIN ticketData : ticketData[i].status = st })

\* a sum that starts at the second ticket
SumConfidenceFromSecond(ticketData) ==
    LET sum[i \in 0..Len(ticketData)] ==
            IF i <= 1 THEN 0
            ELSE sum[i - 1] + (IF ticketData[i].confidence = NoConfidence THEN 0
                               ELSE ticketData[i].confidence)
    IN  sum[Len(ticketData)]

RECURSIVE SumConfidence(_)
SumConfidence(ticketData) ==
    IF ticketData = <<>> THEN 0
    ELSE LET t == Head(ticketData)
         IN  (IF t.confidence = NoConfidence THEN 0 ELSE t.confidence)   \* t.confidence || 0
             + SumConfidence(Tail(ticketData))

ZeroMetrics ==
    [autoResolvedRate |-> 0, avgConfidence |-> 0, escalationRate |-> 0,
     totalTickets |-> 0, pendingCount |-> 0]

\* the mean taken over the tickets that carry a confidence only
calculateMetricsPresentOnly(ticketData) ==
    LET total == Len(ticketData)
        present == Cardinality({ i \in DOMAIN ticketData :
                                    ticketData[i].confidence # NoConfidence })
    IN  IF total = 0 THEN ZeroMetrics
        ELSE [autoResolvedRate |-> MathRound(CountStatus(ticketData, "auto_resolved") * 100, total),
              avgConfidence |-> IF present = 0 THEN 0
                                ELSE MathRound(SumConfidence(ticketData), present),
              escalationRate |-> MathRound(CountStatus(ticketData, "escalated") * 100, total),
              totalTickets |-> total,
              pendingCount |-> CountStatus(ticketData, "pending")]

\* the rates with the operands of the division swapped
calculateMetricsSwapped(ticketData) ==
    LET total == Len(ticketData)
        rate(st) == IF CountStatus(ticketData, st) = 0 THEN 0
                    ELSE MathRound(total * 100, CountStatus(ticketData, st))
    IN  IF total = 0 THEN ZeroMetrics
        ELSE [autoResolvedRate |-> rate("auto_resolved"),
              avgConfidence |-> MathRound(SumConfidence(ticketData), total),
              escalationRate |-> rate("escalated"),
              totalTickets |-> total,
              pendingCount |-> CountStatus(ticketData, "pending")]

\* the value calculateMetrics hands to setMetrics
calculateMetrics(ticketData) ==
    LET total == Len(ticketData)
    IN  IF total = 0 THEN ZeroMetrics
        ELSE [autoResolvedRate |-> MathRound(CountStatus(ticketData, "auto_resolved") * 100, total),
              avgConfidence |-> MathRound(SumConfidence(ticketData), total),
              escalationRate |-> MathRound(CountStatus(ticketData, "escalated") * 100, total),
              totalTickets |-> total,
              pendingCount |-> CountStatus(ticketData, "pending")]

-----------------------------------------------------------------------------
(* TicketDashboard *)

NoModal == [isOpen |-> FALSE, ticketId |-> "", currentResponse |-> ""]

\* newResponse texts the user can type
Texts == {"   ", "text"}

\* String.prototype.trim on the texts of the model
Trim(s) == IF s = "   " THEN "" ELSE s

InflightTotal(fl) ==
    fl["all"] + fl["pending"] + fl["auto_resolved"] + fl["escalated"]

\* the dashboard renders only a spinner, without table, buttons or trace
Spinner(ld, tk) == ld /\ Len(tk) = 0

\* the controls of the dashboard are on screen
Rendered == mounted /\ ~Spinner(loading, tickets)

\* TicketTable is unmounted while the spinner shows and starts closed again
ModalAfter(ld, tk, m) == IF Spinner(ld, tk) THEN NoModal ELSE m
TextAfter(ld, tk, txt) == IF Spinner(ld, tk) THEN "" ELSE txt

\* another request can be sent within the bound of the model
HasRoom == InflightTotal(inflight) + InflightTotal(posts) < MaxPending

\* a fetchTickets that aborts the queries still in flight before it sends its own
IssueFetchAborting(f) ==
    /\ inflight' = [g \in Filters |-> IF g = f THEN 1 ELSE 0]
    /\ loading' = IF mounted THEN TRUE ELSE loading
    /\ overrideModal' = IF mounted THEN ModalAfter(TRUE, tickets, overrideModal) ELSE overrideModal
    /\ newResponse' = IF mounted THEN TextAfter(TRUE, tickets, newResponse) ELSE newResponse

\* fetchTickets up to its await: setLoading(true) and the GET with the captured filter
IssueFetch(f) ==
    /\ inflight' = [inflight EXCEPT ![f] = @ + 1]
    /\ loading' = IF mounted THEN TRUE ELSE loading
    /\ overrideModal' = IF mounted THEN ModalAfter(TRUE, tickets, overrideModal) ELSE overrideModal
    /\ newResponse' = IF mounted THEN TextAfter(TRUE, tickets, newResponse) ELSE newResponse

DashInit ==
    /\ tickets = <<>>
    /\ filter = "all"
    /\ loading = TRUE
    /\ error = NoError
    /\ metrics = ZeroMetrics
    /\ inflight = [f \in Filters |-> IF f = "all" THEN 1 ELSE 0]
    /\ posts = [f \in Filters |-> 0]
    /\ timers = <<"all">>
    /\ mounted = TRUE
    /\ overrideModal = NoModal
    /\ newResponse = ""
    /\ last = [op |-> "mount", out |-> "", data |-> <<>>]

\* the refresh button: onClick={fetchTickets}
Refresh ==
    /\ Rendered
    /\ HasRoom
    /\ IssueFetch(filter)
    /\ last' = [op |-> "refresh", out |-> "", data |-> <<>>]
    /\ UNCHANGED <<tickets, filter, error, metrics, posts, timers, mounted>>
    /\ UNCHANGED <<traceVars, aggVars, synthVars>>

\* the 30 s interval fires its captured fetchTickets
TimerTick(i) ==
    /\ mounted
    /\ i \in DOMAIN timers
    /\ HasRoom
    /\ IssueFetch(timers[i])
    /\ last' = [op |-> "tick", out |-> "", data |-> <<>>]
    /\ UNCHANGED <<tickets, filter, error, metrics, posts, timers, mounted>>
    /\ UNCHANGED <<traceVars, aggVars, synthVars>>

\* a filter change whose interval effect has no cleanup
handleFilterChangeNoCleanup(newFilter) ==
    /\ Rendered
    /\ newFilter # filter
    /\ HasRoom
    /\ filter' = newFilter
    /\ IssueFetch(newFilter)
    /\ timers' = Append(timers, newFilter)
    /\ last' = [op |-> "filter", out |-> "", data |-> <<>>]
    /\ UNCHANGED <<tickets, error, metrics, posts, mounted>>
    /\ UNCHANGED <<traceVars, aggVars, synthVars>>

\* handleFilterChange, then the two effects that depend on fetchTickets
handleFilterChange(newFilter) ==
    /\ Rendered
    /\ newFilter # filter
    /\ HasRoom
    /\ filter' = newFilter
    /\ IssueFetch(newFilter)
    /\ timers' = <<newFilter>>
    /\ last' = [op |-> "filter", out |-> "", data |-> <<>>]
    /\ UNCHANGED <<tickets, error, metrics, posts, mounted>>
    /\ UNCHANGED <<traceVars, aggVars, synthVars>>

\* answers of GET /api/tickets; a body that does not parse throws into the same catch
\* branch as a network error
FetchOutcomes ==
    { [kind |-> "ok", tickets |-> s] : s \in ApiTicketLists }
    \cup { [kind |-> k, tickets |-> <<>>] :
             k \in {"ok_no_tickets", "http_error", "network_error"} }

FetchSucceeded(o) == o.kind \in {"ok", "ok_no_tickets"}

\* a catch branch that keeps the collection it has
FetchedTicketsKeep(o) ==
    IF o.kind \in {"ok", "ok_no_tickets"} THEN o.tickets ELSE tickets

\* a try branch that adds the response to the collection it has
FetchedTicketsMerge(o) ==
    IF o.kind \in {"ok", "ok_no_tickets"} THEN tickets \o o.tickets
    ELSE generateDemoTickets

\* the collection fetchTickets hands to setTickets for an outcome
FetchedTickets(o) ==
    IF FetchSucceeded(o) THEN o.tickets      \* data.tickets || []
    ELSE generateDemoTickets                 \* catch branch

\* a catch branch without its calculateMetrics call
StoredMetricsTryOnly(o) ==
    IF FetchSucceeded(o) THEN calculateMetrics(o.tickets) ELSE metrics

\* the metrics stored with it: calculateMetrics is called in both branches
StoredMetrics(o) == calculateMetrics(FetchedTickets(o))

\* a catch branch of fetchTickets without its setError(null)
FetchedErrorKept(o) == IF FetchSucceeded(o) THEN NoError ELSE error

\* what fetchTickets hands to setError: null in the try and in the catch branch
FetchedError(o) == NoError

\* fetchTickets after its await: try / catch / finally
FetchCompletes(f, o) ==
    /\ inflight[f] > 0
    /\ inflight' = [inflight EXCEPT ![f] = @ - 1]
    /\ last' = [op |-> "fetched", out |-> o.kind, data |-> o.tickets]
    /\ IF mounted
       THEN /\ tickets' = FetchedTickets(o)
            /\ metrics' = StoredMetrics(o)
            /\ error' = FetchedError(o)
            /\ loading' = FALSE
       ELSE UNCHANGED <<tickets, metrics, error, loading>>
    /\ UNCHANGED <<filter, posts, timers, mounted, overrideModal, newResponse>>
    /\ UNCHANGED <<traceVars, aggVars, synthVars>>

\* the dismiss button of the error alert
DismissError ==
    /\ Rendered
    /\ error # NoError
    /\ error' = NoError
    /\ last' = [op |-> "dismiss", out |-> "", data |-> <<>>]
    /\ UNCHANGED <<tickets, filter, loading, metrics, inflight, posts, timers, mounted,
                   overrideModal, newResponse>>
    /\ UNCHANGED <<traceVars, aggVars, synthVars>>

\* the Override button of a row (shown for auto_resolved tickets only)
handleOverrideClick(i) ==
    /\ Rendered
    /\ i \in DOMAIN tickets
    /\ tickets[i].status = "auto_resolved"
    /\ LET text == IF tickets[i].response = Missing THEN "" ELSE tickets[i].response
       IN  /\ overrideModal' = [isOpen |-> TRUE, ticketId |-> tickets[i].id,
                                currentResponse |-> text]
           /\ newResponse' = text
    /\ last' = [op |-> "override_click", out |-> "", data |-> <<>>]
    /\ UNCHANGED <<tickets, filter, loading, error, metrics, inflight, posts, timers, mounted>>
    /\ UNCHANGED <<traceVars, aggVars, synthVars>>

\* the modal is drawn: TicketTable returns its empty view before the modal for no tickets
ModalShown == Rendered /\ Len(tickets) > 0 /\ overrideModal.isOpen

\* typing in the textarea of the modal
setNewResponse(text) ==
    /\ ModalShown
    /\ text # newResponse
    /\ newResponse' = text
    /\ last' = [op |-> "type", out |-> "", data |-> <<>>]
    /\ UNCHANGED <<tickets, filter, loading, error, metrics, inflight, posts, timers, mounted,
                   overrideModal>>
    /\ UNCHANGED <<traceVars, aggVars, synthVars>>

\* Cancel, the close button and the backdrop of the modal
CloseModal ==
    /\ ModalShown
    /\ overrideModal' = NoModal
    /\ last' = [op |-> "close_modal", out |-> "", data |-> <<>>]
    /\ UNCHANGED <<tickets, filter, loading, error, metrics, inflight, posts, timers, mounted,
                   newResponse>>
    /\ UNCHANGED <<traceVars, aggVars, synthVars>>

\* handleOverrideSubmit, and handleOverride up to its await: the POST is sent with
\* newResponse as its override_response, and its continuation keeps the fetchTickets
\* (and so the filter) of the render that created it
handleOverrideSubmit ==
    /\ ModalShown
    /\ HasRoom
    /\ posts' = [posts EXCEPT ![filter] = @ + 1]
    /\ overrideModal' = NoModal
    /\ newResponse' = ""
    /\ last' = [op |-> "submit", out |-> newResponse, data |-> <<>>]
    /\ UNCHANGED <<tickets, filter, loading, error, metrics, inflight, timers, mounted>>
    /\ UNCHANGED <<traceVars, aggVars, synthVars>>

PostOutcomes == {"ok", "http_error", "network_error"}

\* the outcomes of the POST after which handleOverride calls fetchTickets
PostRefreshes(o) == o = "ok"

\* a catch branch of handleOverride that swallows the failure
OverrideErrorSwallowed(o) == NoError

\* what the catch branch of handleOverride hands to setError
OverrideError(o) ==
    IF o = "http_error" THEN "Failed to override ticket" ELSE "Failed to fetch"

\* handleOverride after its await
PostCompletes(f, o) ==
    /\ posts[f] > 0
    /\ posts' = [posts EXCEPT ![f] = @ - 1]
    /\ last' = [op |-> "posted", out |-> o, data |-> <<>>]
    /\ IF PostRefreshes(o)
       THEN /\ IssueFetch(f)
            /\ UNCHANGED error
       ELSE /\ error' = IF mounted THEN OverrideError(o) ELSE error
            /\ UNCHANGED <<inflight, loading, overrideModal, newResponse>>
    /\ UNCHANGED <<tickets, filter, metrics, timers, mounted>>
    /\ UNCHANGED <<traceVars, aggVars, synthVars>>

\* cleanup of the interval effect when the dashboard goes away
Unmount ==
    /\ mounted
    /\ mounted' = FALSE
    /\ timers' = <<>>
    /\ overrideModal' = NoModal
    /\ newResponse' = ""
    /\ last' = [op |-> "unmount", out |-> "", data |-> <<>>]
    /\ UNCHANGED <<tickets, filter, loading, error, metrics, inflight, posts>>
    /\ UNCHANGED <<traceVars, aggVars, synthVars>>

DashNext ==
    \/ Refresh
    \/ \E i \in DOMAIN timers : TimerTick(i)
    \/ \E f \in Filters : handleFilterChange(f)
    \/ \E f \in Filters, o \in FetchOutcomes : FetchCompletes(f, o)
    \/ DismissError
    \/ \E i \in 1..6 : handleOverrideClick(i)
    \/ \E text \in Texts : setNewResponse(text)
    \/ CloseModal
    \/ handleOverrideSubmit
    \/ \E f \in Filters, o \in PostOutcomes : PostCompletes(f, o)
    \/ Unmount

-----------------------------------------------------------------------------
(* TraceSynthesizer *)

NoTicket == [id |-> "null"]    \* the ticket prop is null
NoTimer == [armed |-> FALSE]   \* no replay interval is armed

\* String.prototype.toUpperCase on the priorities
ToUpperCase(p) ==
    CASE p = "low" -> "LOW" [] p = "medium" -> "MEDIUM" [] p = "high" -> "HIGH"
      [] OTHER -> "CRITICAL"

Step(name, action, reasoning, conf, ts) ==
    [step |-> name, action |-> action, reasoning |-> reasoning, confidence |-> conf,
     timestamp |-> ts]

\* the Decision Engine step that always gives the default reason
DecisionEngineStepDefaultReason(t, now) ==
    Step("Decision Engine",
         IF t.status = "escalated" THEN "escalate" ELSE "auto_respond",
         IF t.status = "escalated"
         THEN <<"escalation triggered", "Confidence below threshold", "", "">>
         ELSE <<"threshold met", "", "", "">>,
         t.confidence, now - 1500)

\* the fourth step; a reasoning is its template and the ticket fields it embeds
DecisionEngineStep(t, now) ==
    Step("Decision Engine",
         IF t.status = "escalated" THEN "escalate" ELSE "auto_respond",
         IF t.status = "escalated"
         THEN <<"escalation triggered",
                IF t.escalation_reason = Missing THEN "Confidence below threshold"
                ELSE t.escalation_reason, "", "">>
         ELSE <<"threshold met", "", "", "">>,
         t.confidence, now - 1500)

\* a Response Generation step for every ticket that is not escalated
ResponseGenerationStepsUnlessEscalated(t, now) ==
    IF t.status # "escalated"
    THEN << Step("Response Generation", "generate", <<"generated", "", "", "">>,
                 t.confidence, now - 1000) >>
    ELSE << >>

\* the spread of the optional Response Generation step
ResponseGenerationSteps(t, now) ==
    IF t.status = "auto_resolved"
    THEN << Step("Response Generation", "generate", <<"generated", "", "", "">>,
                 t.confidence, now - 1000) >>
    ELSE << >>

\* a Quality Assurance step stamped before the Response Generation step
QualityAssuranceStepEarly(t, now) ==
    Step("Quality Assurance",
         IF t.status = "auto_resolved" THEN "approve" ELSE "skip",
         IF t.status = "auto_resolved" THEN <<"validated", "", "", "">>
         ELSE <<"skipped", "", "", "">>,
         IF t.status = "auto_resolved" THEN 95 ELSE 0,
         now - 1250)

\* the last step
QualityAssuranceStep(t, now) ==
    Step("Quality Assurance",
         IF t.status = "auto_resolved" THEN "approve" ELSE "skip",
         IF t.status = "auto_resolved" THEN <<"validated", "", "", "">>
         ELSE <<"skipped", "", "", "">>,
         IF t.status = "auto_resolved" THEN 95 ELSE 0,
         now - 500)

\* generateMockDecisions called at Date.now() = now
generateMockDecisions(t, now) ==
    << Step("Input Validation", "validate", <<"checks passed", "", "", "">>, 100, now - 3000),
       Step("Classification", "classify",
            <<"analyzed", ToUpperCase(t.priority), t.sentiment, t.category>>,
            t.confidence, now - 2500),
       Step("Context Retrieval", "gather_context", <<"searched", "", "", "">>, 92, now - 2000),
       DecisionEngineStep(t, now) >>
    \o ResponseGenerationSteps(t, now)
    \o << QualityAssuranceStep(t, now) >>

-----------------------------------------------------------------------------
(* DecisionTrace *)

\* the tickets a row click can hand to the trace player
TraceTickets == { generateDemoTickets[1], generateDemoTickets[2] }

\* values of Date.now() when a trace is synthesized
Clock == {5000}

\* data.decisions of a 2xx answer of the trace API for ticket t: n steps about t
ApiDecisions(t, n) ==
    [i \in 1..n |-> Step("Recorded", IF i = 1 THEN "validate" ELSE "classify",
                         <<"recorded", t.id, "", "">>, 50, 1000 * i)]

TraceOutcomes ==
    { [kind |-> "ok", n |-> n] : n \in 0..MaxApiSteps }
    \cup { [kind |-> k, n |-> 0] :
             k \in {"ok_no_decisions", "http_error", "network_error", "bad_json"} }

\* a 2xx answer with a decisions array, which is truthy also when empty
HasDecisions(o) == o.kind = "ok"

\* a fetchDecisionTrace whose failure paths empty the trace
LoadedStepsNoFallback(t, o, now) ==
    IF HasDecisions(o) THEN ApiDecisions(t, o.n)
    ELSE << >>

\* what fetchDecisionTrace hands to setDecisionSteps; the mock is built for the
\* ticket of the render that issued the fetch
LoadedSteps(t, o, now) ==
    IF HasDecisions(o) THEN ApiDecisions(t, o.n)    \* data.decisions || mock
    ELSE generateMockDecisions(t, now)

TraceFetchTotal(tf) ==
    tf[generateDemoTickets[1]] + tf[generateDemoTickets[2]]

TraceInit ==
    /\ ticket = NoTicket
    /\ decisionSteps = <<>>
    /\ traceLoading = FALSE
    /\ showFullTrace = FALSE
    /\ activeNode = 0
    /\ isAnimating = FALSE
    /\ animationRef = NoTimer
    /\ traceFetches = [t \in TraceTickets |-> 0]
    /\ traceLast = [op |-> "mount", out |-> ""]

\* fetchDecisionTrace up to its await
IssueTraceFetch(t) ==
    /\ TraceFetchTotal(traceFetches) < MaxTraceFetches
    /\ traceLoading' = TRUE
    /\ traceFetches' = [traceFetches EXCEPT ![t] = @ + 1]

\* handleTicketSelect sets the prop; the [ticket] effect fetches the trace
SelectTicket(t) ==
    /\ ticket' = t
    /\ IssueTraceFetch(t)
    /\ traceLast' = [op |-> "select", out |-> t.id]
    /\ UNCHANGED <<decisionSteps, showFullTrace, activeNode, isAnimating, animationRef>>
    /\ UNCHANGED <<dashVars, aggVars, synthVars>>

\* the prop becomes null; the [ticket] effect empties the trace
ClearTicket ==
    /\ ticket # NoTicket
    /\ ticket' = NoTicket
    /\ decisionSteps' = <<>>
    /\ traceLast' = [op |-> "clear", out |-> ""]
    /\ UNCHANGED <<traceLoading, showFullTrace, activeNode, isAnimating, animationRef,
                   traceFetches>>
    /\ UNCHANGED <<dashVars, aggVars, synthVars>>

\* is the response applied when the fetch it answers was issued for ticket t
ResponseApplies(t) == TRUE

\* fetchDecisionTrace after its await
TraceCompletes(t, o, now) ==
    /\ traceFetches[t] > 0
    /\ traceFetches' = [traceFetches EXCEPT ![t] = @ - 1]
    /\ IF ResponseApplies(t)
       THEN decisionSteps' = LoadedSteps(t, o, now)
       ELSE UNCHANGED decisionSteps
    /\ traceLoading' = FALSE
    /\ traceLast' = [op |-> "loaded", out |-> t.id, kind |-> o.kind, n |-> o.n]
    /\ UNCHANGED <<ticket, showFullTrace, activeNode, isAnimating, animationRef>>
    /\ UNCHANGED <<dashVars, aggVars, synthVars>>

\* the trace panel with its buttons is drawn
PanelShown == ticket # NoTicket /\ ~traceLoading

\* the "Full Trace" button and the "+n more steps" button
OpenFullTrace ==
    /\ PanelShown
    /\ showFullTrace' = TRUE
    /\ activeNode' = Len(decisionSteps) - 1
    /\ traceLast' = [op |-> "open", out |-> ""]
    /\ UNCHANGED <<ticket, decisionSteps, traceLoading, isAnimating, animationRef,
                   traceFetches>>
    /\ UNCHANGED <<dashVars, aggVars, synthVars>>

\* startReplayAnimation: the interval callback keeps the decisionSteps of its render
startReplayAnimation ==
    /\ isAnimating' = TRUE
    /\ activeNode' = 0
    /\ animationRef' = [currentNode |-> 0, length |-> Len(decisionSteps)]

\* a stopAnimation that resets the flag and leaves the interval armed
stopAnimationKeepsTimer ==
    /\ isAnimating' = FALSE
    /\ UNCHANGED animationRef

\* a stopAnimation that clears the interval and leaves isAnimating alone
stopAnimationKeepsFlag ==
    /\ animationRef' = NoTimer
    /\ UNCHANGED isAnimating

\* stopAnimation
stopAnimation ==
    /\ animationRef' = NoTimer
    /\ isAnimating' = FALSE

\* the Replay / Stop button of the modal
ToggleReplay ==
    /\ PanelShown /\ showFullTrace
    /\ IF isAnimating
       THEN stopAnimation /\ UNCHANGED activeNode
       ELSE startReplayAnimation
    /\ traceLast' = [op |-> IF isAnimating THEN "stop" ELSE "start", out |-> ""]
    /\ UNCHANGED <<ticket, decisionSteps, traceLoading, showFullTrace, traceFetches>>
    /\ UNCHANGED <<dashVars, aggVars, synthVars>>

\* an interval callback that stops one tick late
AnimationTickLate ==
    /\ animationRef # NoTimer
    /\ LET currentNode == animationRef.currentNode + 1
       IN  IF currentNode > animationRef.length
           THEN /\ animationRef' = NoTimer
                /\ isAnimating' = FALSE
                /\ UNCHANGED activeNode
           ELSE /\ animationRef' = [animationRef EXCEPT !.currentNode = currentNode]
                /\ activeNode' = currentNode
                /\ UNCHANGED isAnimating
    /\ traceLast' = [op |-> "tick", out |-> ""]
    /\ UNCHANGED <<ticket, decisionSteps, traceLoading, showFullTrace, traceFetches>>
    /\ UNCHANGED <<dashVars, aggVars, synthVars>>

\* the 800 ms interval callback
AnimationTick ==
    /\ animationRef # NoTimer
    /\ LET currentNode == animationRef.currentNode + 1
       IN  IF currentNode >= animationRef.length
           THEN /\ animationRef' = NoTimer
                /\ isAnimating' = FALSE
                /\ UNCHANGED activeNode
           ELSE /\ animationRef' = [animationRef EXCEPT !.currentNode = currentNode]
                /\ activeNode' = currentNode
                /\ UNCHANGED isAnimating
    /\ traceLast' = [op |-> "tick", out |-> ""]
    /\ UNCHANGED <<ticket, decisionSteps, traceLoading, showFullTrace, traceFetches>>
    /\ UNCHANGED <<dashVars, aggVars, synthVars>>

\* the backdrop and the close button of the modal
CloseFullTrace ==
    /\ PanelShown /\ showFullTrace
    /\ showFullTrace' = FALSE
    /\ stopAnimation
    /\ traceLast' = [op |-> "close", out |-> ""]
    /\ UNCHANGED <<ticket, decisionSteps, traceLoading, activeNode, traceFetches>>
    /\ UNCHANGED <<dashVars, aggVars, synthVars>>

TraceNext ==
    \/ \E t \in TraceTickets : SelectTicket(t)
    \/ ClearTicket
    \/ \E t \in TraceTickets, o \in TraceOutcomes, now \in Clock : TraceCompletes(t, o, now)
    \/ OpenFullTrace
    \/ ToggleReplay
    \/ AnimationTick
    \/ CloseFullTrace

-----------------------------------------------------------------------------
(* MetricsAggregator on its own *)

NotCalled == [called |-> FALSE]

\* tickets of every status, with and without a confidence
AggTickets ==
    { Tkt("agg", st, "low", "Any", "neutral", c, Missing, Missing) :
        st \in Statuses, c \in {NoConfidence, 45, 90} }

RECURSIVE SeqsUpTo(_, _)
SeqsUpTo(S, n) ==
    IF n = 0 THEN {<<>>}
    ELSE LET shorter == SeqsUpTo(S, n - 1)
         IN  shorter \cup { Append(s, x) : s \in { q \in shorter : Len(q) = n - 1 },
                                           x \in S }

AggInit ==
    /\ aggInput = <<>>
    /\ aggregated = NotCalled
    /\ aggOp = "none"

AggInputs ==
    /\ aggInput \in SeqsUpTo(AggTickets, MaxAggLen) \cup {generateDemoTickets}
    /\ aggregated = NotCalled
    /\ aggOp = "none"

\* calculateMetrics called on the collection
Aggregate ==
    /\ aggregated' = calculateMetrics(aggInput)
    /\ aggOp' = "aggregate"
    /\ UNCHANGED aggInput
    /\ UNCHANGED <<dashVars, traceVars, synthVars>>

\* the same tickets handed over in another order
Reorder ==
    /\ Len(aggInput) > 1
    /\ \E i \in 1..(Len(aggInput) - 1) :
          aggInput' = [aggInput EXCEPT ![i] = aggInput[i + 1],
                                           ![i + 1] = aggInput[i]]
    /\ aggInput' # aggInput
    /\ aggregated' = calculateMetrics(aggInput')
    /\ aggOp' = "reorder"
    /\ UNCHANGED <<dashVars, traceVars, synthVars>>

AggNext ==
    \/ Aggregate
    \/ Reorder

-----------------------------------------------------------------------------
(* generateMockDecisions on its own *)

\* tickets of every status, with and without an escalation reason
SynthTickets ==
    { Tkt("synth", st, pr, "Billing", "negative", c, Missing, reason) :
        st \in Statuses, pr \in {"low", "critical"}, c \in {0, 45, 94},
        reason \in {Missing, "Financial matter requires human verification"} }

\* the values Date.now() takes
SynthClock == { 5000 + 1000 * k : k \in 1..MaxClock }

SynthIdle ==
    /\ synthTicket = NoTicket
    /\ synthSteps = <<>>

SynthInputs ==
    /\ synthTicket \in SynthTickets
    /\ synthSteps = <<>>

\* generateMockDecisions(synthTicket), called for the first time or again
Synthesize ==
    /\ \E now \in SynthClock : synthSteps' = generateMockDecisions(synthTicket, now)
    /\ UNCHANGED synthTicket
    /\ UNCHANGED <<dashVars, traceVars, aggVars>>

SynthNext == Synthesize

-----------------------------------------------------------------------------
(* Properties of the trace player *)

\* the traces fetchDecisionTrace can load for ticket t
LoadedFor(t) == { LoadedSteps(t, o, now) : o \in TraceOutcomes, now \in Clock }

\* C1: once no trace fetch is pending, the displayed trace is one loaded (fetched or
\* synthesized) for the selected ticket, also when another ticket's fetch was pending
\* at the selection and answered last
C1_SelectedTicketTraceShown ==
    (ticket # NoTicket /\ TraceFetchTotal(traceFetches) = 0)
        => decisionSteps \in LoadedFor(ticket)

-----------------------------------------------------------------------------
(* Properties of the dashboard *)

FetchFailures == {"http_error", "network_error"}

\* a step in which the response of an override POST is handled
PostHandled == InflightTotal(posts') < InflightTotal(posts)

\* a step in which the response of a ticket query is handled
FetchHandled == InflightTotal(inflight') < InflightTotal(inflight)

\* C2: the handling of every override POST, whatever its outcome, issues a refresh of
\* the ticket collection
C2_OverrideAlwaysRefreshes ==
    [][PostHandled => InflightTotal(inflight') = InflightTotal(inflight) + 1]_vars

\* C3: submitting an override whose text is empty after trimming raises an error and
\* sends no POST
C3_EmptyOverrideRejected ==
    [][(overrideModal.isOpen /\ last'.op = "submit" /\ Trim(newResponse) = "")
          => (InflightTotal(posts') = InflightTotal(posts) /\ error' # NoError)]_vars

\* the metrics of the six demo tickets: 3 of 6 auto_resolved, 1 of 6 escalated,
\* mean confidence 0.77, one pending
DemoMetrics ==
    [autoResolvedRate |-> 50, avgConfidence |-> 77, escalationRate |-> 17,
     totalTickets |-> 6, pendingCount |-> 1]

\* C4: when a ticket query has failed, the collection is the six-ticket demo dataset,
\* the metrics are those of that dataset and the error state is null
C4_FailedRefreshShowsDemo ==
    (mounted /\ last.op = "fetched" /\ last.out \in FetchFailures)
        => /\ tickets = generateDemoTickets
           /\ Len(tickets) = 6
           /\ metrics = DemoMetrics
           /\ error = NoError

C4_Witness ==
    /\ mounted /\ last.op = "fetched" /\ last.out = "network_error"
    /\ filter = "pending"
    /\ tickets = generateDemoTickets /\ metrics = DemoMetrics /\ error = NoError

\* C5: when a ticket query fails, the error state becomes non-null and the collection
\* stays the one it was
C5_FailedRefreshSurfacesError ==
    [][(mounted /\ FetchHandled /\ last'.op = "fetched" /\ last'.out \in FetchFailures)
          => (error' # NoError /\ tickets' = tickets)]_vars

\* C6: when a ticket query has succeeded, the collection is exactly the tickets of the
\* response (empty for a response without tickets) and the error state is null
C6_SuccessfulRefreshReplaces ==
    (mounted /\ last.op = "fetched" /\ last.out \in {"ok", "ok_no_tickets"})
        => /\ tickets = (IF last.out = "ok" THEN last.data ELSE <<>>)
           /\ error = NoError

C6_Witness ==
    /\ mounted /\ last.op = "fetched" /\ last.out = "ok"
    /\ Len(last.data) = 1
    /\ tickets = last.data /\ error = NoError
    /\ InflightTotal(inflight) > 0

\* C7: in every state the stored metrics are the aggregate of the current collection
C7_MetricsFollowTickets ==
    metrics = calculateMetrics(tickets)

C7_Witness ==
    /\ metrics = calculateMetrics(tickets)
    /\ last.op = "fetched" /\ last.out = "http_error"
    /\ metrics.totalTickets = 6
    /\ InflightTotal(posts) > 0

-----------------------------------------------------------------------------
(* Properties of the aggregator *)

Abs(x) == IF x < 0 THEN 0 - x ELSE x

\* the whole percentage nearest to 100 * count / total
NearestPercent(count, total) ==
    CHOOSE k \in 0..100 : 2 * Abs(k * total - 100 * count) <= total

NumberWith(coll, st) == Cardinality({ i \in DOMAIN coll : coll[i].status = st })

C9_RatesArePercentages ==
    aggregated # NotCalled =>
        /\ aggregated.autoResolvedRate \in 0..100
        /\ aggregated.escalationRate \in 0..100

C9_Witness ==
    /\ aggOp = "aggregate"
    /\ Len(aggInput) = 3
    /\ aggregated.autoResolvedRate = 100
    /\ aggregated.escalationRate = 0

\* both collections hold the same tickets the same number of times
SameTickets(a, b) ==
    /\ Len(a) = Len(b)
    /\ \A x \in { a[i] : i \in DOMAIN a } :
          Cardinality({ i \in DOMAIN a : a[i] = x })
              = Cardinality({ i \in DOMAIN b : b[i] = x })

ConfidenceTotal(coll) ==
    LET sum[i \in 0..Len(coll)] ==
            IF i = 0 THEN 0
            ELSE sum[i - 1] + (IF coll[i].confidence = NoConfidence THEN 0
                               ELSE coll[i].confidence)
    IN  sum[Len(coll)]

-----------------------------------------------------------------------------
(* Properties of the synthesizer *)

\* the (action, confidence) pairs of a trace, in order
Outline(steps) == [ i \in DOMAIN steps |-> <<steps[i].action, steps[i].confidence>> ]

\* the pairs a ticket of status st and confidence c is to get
OutlineOf(st, c) ==
    << <<"validate", 100>>, <<"classify", c>>, <<"gather_context", 92>>,
       <<IF st = "escalated" THEN "escalate" ELSE "auto_respond", c>> >>
    \o (IF st = "auto_resolved" THEN << <<"generate", c>> >> ELSE << >>)
    \o << IF st = "auto_resolved" THEN <<"approve", 95>> ELSE <<"skip", 0>> >>

\* C12: the actions and confidences of the synthesized steps are validate 1.0,
\* classify c, gather_context 0.92, escalate or auto_respond c, generate c for an
\* auto_resolved ticket only, then approve 0.95 or skip 0; an auto_resolved ticket
\* gets 6 steps and every other ticket 5
C12_SynthesizedOutline ==
    synthSteps # <<>> =>
        /\ Outline(synthSteps) = OutlineOf(synthTicket.status, synthTicket.confidence)
        /\ Len(synthSteps) = (IF synthTicket.status = "auto_resolved" THEN 6 ELSE 5)

C12_Witness ==
    /\ synthTicket.status = "auto_resolved" /\ synthTicket.confidence = 94
    /\ Len(synthSteps) = 6
    /\ synthSteps[5].action = "generate" /\ synthSteps[5].confidence = 94
    /\ synthSteps[6].action = "approve" /\ synthSteps[6].confidence = 95

\* the ticket fields a reasoning embeds
Embedded(reasoning) == { reasoning[k] : k \in 2..Len(reasoning) } \ {""}

\* C13: the 4th synthesized step of an escalated ticket has action escalate and a
\* reasoning that embeds the escalation reason, or the default message when the
\* ticket has none; the 4th step of any other ticket has action auto_respond and a
\* reasoning that embeds nothing of the ticket
C13_DecisionStepReasoning ==
    synthSteps # <<>> =>
        IF synthTicket.status = "escalated"
        THEN /\ synthSteps[4].action = "escalate"
             /\ Embedded(synthSteps[4].reasoning)
                  = { IF synthTicket.escalation_reason = Missing
                      THEN "Confidence below threshold"
                      ELSE synthTicket.escalation_reason }
        ELSE /\ synthSteps[4].action = "auto_respond"
             /\ Embedded(synthSteps[4].reasoning) = {}

C13_Witness ==
    /\ synthTicket.status = "escalated"
    /\ synthTicket.escalation_reason = "Financial matter requires human verification"
    /\ Len(synthSteps) = 5
    /\ synthSteps[4].action = "escalate"
    /\ synthTicket.escalation_reason \in Embedded(synthSteps[4].reasoning)

\* C14: the timestamps of the synthesized steps never decrease along the sequence,
\* with and without the Response Generation step
C14_TimestampsNonDecreasing ==
    \A i \in 1..(Len(synthSteps) - 1) :
        synthSteps[i].timestamp <= synthSteps[i + 1].timestamp

C14_Witness ==
    /\ synthTicket.status = "auto_resolved"
    /\ Len(synthSteps) = 6
    /\ synthSteps[5].action = "generate"
    /\ synthSteps[4].timestamp < synthSteps[5].timestamp
    /\ synthSteps[5].timestamp < synthSteps[6].timestamp

-----------------------------------------------------------------------------
(* Properties of the replay *)

\* a replay is running and nothing but its own ticks has moved the pointer
ReplayUndisturbed ==
    /\ animationRef # NoTimer /\ isAnimating
    /\ activeNode = animationRef.currentNode

\* C15: a replay started on a trace of n >= 1 steps puts the pointer on 0, every tick
\* of the undisturbed replay moves it one index further up to n - 1, and the tick
\* after that ends the replay: not animating, timer cleared, pointer on n - 1; without
\* a timer no tick happens
C15_ReplayRunsToEnd ==
    /\ [][(traceLast'.op = "start" /\ Len(decisionSteps) >= 1)
            => /\ activeNode' = 0 /\ isAnimating'
               /\ animationRef' # NoTimer
               /\ animationRef'.length = Len(decisionSteps)]_vars
    /\ []((ReplayUndisturbed /\ animationRef.length >= 1)
            => activeNode \in 0..(animationRef.length - 1))
    /\ [][(traceLast'.op = "tick" /\ ReplayUndisturbed /\ animationRef.length >= 1)
            => IF activeNode < animationRef.length - 1
               THEN /\ activeNode' = activeNode + 1
                    /\ isAnimating' /\ animationRef' # NoTimer
                    /\ animationRef'.length = animationRef.length
               ELSE /\ activeNode' = animationRef.length - 1
                    /\ ~isAnimating' /\ animationRef' = NoTimer]_vars
    /\ [][animationRef = NoTimer => traceLast'.op # "tick"]_vars

C15_Witness ==
    /\ traceLast.op = "tick"
    /\ Len(decisionSteps) = 6
    /\ activeNode = 5
    /\ ~isAnimating /\ animationRef = NoTimer
    /\ showFullTrace

\* C16: a selection of another ticket made while a replay runs ends the replay in
\* the same step: no replay timer stays armed (so no tick of the old replay can move
\* the pointer later) and the player is not animating
C16_SelectionCancelsReplay ==
    [][(traceLast'.op = "select" /\ ticket # NoTicket /\ ticket' # ticket
          /\ isAnimating /\ animationRef # NoTimer)
          => (animationRef' = NoTimer /\ ~isAnimating')]_vars

\* a step in which stopAnimation is called: the Stop button or the closing of the modal
StopReplayCalled == traceLast'.op \in {"stop", "close"}

\* C17: stopAnimation, called while a replay runs or while none runs, leaves the
\* player not animating with no timer armed, changes neither the trace nor the
\* pointer, and called on a stopped player changes nothing of the replay
C17_StopReplayIdempotent ==
    /\ [][StopReplayCalled
            => /\ ~isAnimating' /\ animationRef' = NoTimer
               /\ decisionSteps' = decisionSteps
               /\ activeNode' = activeNode]_vars
    /\ [][(StopReplayCalled /\ ~isAnimating /\ animationRef = NoTimer)
            => /\ isAnimating' = isAnimating /\ animationRef' = animationRef
               /\ decisionSteps' = decisionSteps
               /\ activeNode' = activeNode]_vars

C17_Witness ==
    /\ traceLast.op = "stop"
    /\ Len(decisionSteps) = 6
    /\ activeNode = 2
    /\ ~isAnimating /\ animationRef = NoTimer
    /\ showFullTrace

-----------------------------------------------------------------------------
(* Properties of the trace fetch *)

\* the answers of the trace API that carry no decisions
TraceFailures == {"network_error", "http_error", "bad_json", "ok_no_decisions"}

\* the traces generateMockDecisions builds for ticket t
SynthesizedFor(t) == { generateMockDecisions(t, now) : now \in Clock }

\* C18: when the trace query of the selected ticket has failed (network error,
\* non-2xx, unparsable body, body without decisions), the trace is the synthesized
\* trace of that ticket, the player is not loading and the error state is null
C18_FailedTraceFetchSynthesizes ==
    (traceLast.op = "loaded" /\ traceLast.kind \in TraceFailures
        /\ ticket # NoTicket /\ ticket.id = traceLast.out)
        => /\ decisionSteps \in SynthesizedFor(ticket)
           /\ ~traceLoading
           /\ error = NoError

C18_Witness ==
    /\ traceLast.op = "loaded" /\ traceLast.kind = "bad_json"
    /\ ticket = generateDemoTickets[2] /\ ticket.id = traceLast.out
    /\ Len(decisionSteps) = 5
    /\ decisionSteps[4].action = "escalate"
    /\ ~traceLoading

\* C19: when the trace API has answered 2xx with an empty decisions array the trace
\* is the synthesized trace of the ticket, and whenever a ticket is selected and no
\* trace query is pending the trace is not empty
C19_EmptyAnswerSynthesizes ==
    /\ (traceLast.op = "loaded" /\ traceLast.kind = "ok" /\ traceLast.n = 0
          /\ ticket # NoTicket /\ ticket.id = traceLast.out)
          => decisionSteps \in SynthesizedFor(ticket)
    /\ (ticket # NoTicket /\ TraceFetchTotal(traceFetches) = 0)
          => decisionSteps # << >>

-----------------------------------------------------------------------------
(* Properties of the periodic refresh *)

\* C20: while the dashboard is mounted exactly one refresh interval is armed, the one
\* of the current filter, also right after a filter change; each firing issues one
\* ticket query; after the unmount no interval is armed and none fires
C20_OneRefreshTimer ==
    /\ [](mounted => (Len(timers) = 1 /\ timers[1] = filter))
    /\ [](~mounted => timers = << >>)
    /\ [][last'.op = "filter" => (mounted' /\ Len(timers') = 1 /\ timers'[1] = filter')]_vars
    /\ [][last'.op = "tick"
            => /\ mounted /\ Len(timers) = 1
               /\ InflightTotal(inflight') = InflightTotal(inflight) + 1
               /\ inflight'[filter] = inflight[filter] + 1]_vars
    /\ [][~mounted => last'.op # "tick"]_vars

C20_Witness ==
    /\ mounted /\ last.op = "tick"
    /\ filter = "escalated"
    /\ timers = <<"escalated">>
    /\ inflight["escalated"] >= 1
    /\ inflight["all"] = 0

-----------------------------------------------------------------------------
(* Properties of the filter and of concurrent refreshes *)

\* the filter whose ticket query is answered in this step
AnsweredFilter == CHOOSE f \in Filters : inflight'[f] < inflight[f]

\* C21: every ticket query sent, by a filter change, the refresh button, the interval
\* or after an override, carries the filter that is current once the step is done:
\* after a filter change no query carries an earlier filter
C21_RefreshCarriesCurrentFilter ==
    [][\A f \in Filters : inflight'[f] > inflight[f] => f = filter']_vars

\* C22: the answer to a ticket query sent under a filter other than the current one
\* changes neither the collection, nor the metrics, nor the error state
C22_StaleResponseDiscarded ==
    [][(mounted /\ FetchHandled /\ AnsweredFilter # filter)
          => (tickets' = tickets /\ metrics' = metrics /\ error' = error)]_vars

\* the collection fetchTickets stores for an answer of kind k with tickets d
Outcome(k, d) ==
    IF k \in FetchFailures THEN generateDemoTickets
    ELSE IF k = "ok" THEN d ELSE << >>

\* C23: sending a ticket query takes no pending query away; every answer is applied
\* when it arrives, whatever else is in flight and whatever filter it was sent under;
\* nothing else changes the collection, so with no query left it is the outcome of the
\* answer that arrived last
C23_LastCompletedWins ==
    /\ [][(\E f \in Filters : inflight'[f] > inflight[f])
            => \A g \in Filters : inflight'[g] >= inflight[g]]_vars
    /\ [][(mounted /\ FetchHandled)
            => /\ tickets' = Outcome(last'.out, last'.data)
               /\ InflightTotal(inflight') = InflightTotal(inflight) - 1]_vars
    /\ [][~FetchHandled => tickets' = tickets]_vars
    /\ []((mounted /\ last.op = "fetched" /\ InflightTotal(inflight) = 0)
            => tickets = Outcome(last.out, last.data))

C23_Witness ==
    /\ mounted /\ last.op = "fetched" /\ last.out = "ok_no_tickets"
    /\ tickets = << >>
    /\ filter = "auto_resolved"
    /\ inflight["all"] = 1 /\ inflight["auto_resolved"] = 0

\* C24: when an override POST has failed the error state is not null and no POST is
\* sent in its place: one POST is sent per submission and by nothing else
C24_OverrideFailureSurfaced ==
    /\ [][(mounted /\ PostHandled /\ last'.out \in FetchFailures)
            => /\ error' # NoError
               /\ InflightTotal(posts') = InflightTotal(posts) - 1
               /\ inflight' = inflight]_vars
    /\ [][last'.op = "submit" => InflightTotal(posts') = InflightTotal(posts) + 1]_vars
    /\ [][InflightTotal(posts') > InflightTotal(posts) => last'.op = "submit"]_vars

C24_Witness ==
    /\ mounted /\ last.op = "posted" /\ last.out = "http_error"
    /\ error = "Failed to override ticket"
    /\ InflightTotal(posts) = 0 /\ InflightTotal(inflight) = 0

\* C25: with a filter other than "all", no ticket query in flight and the last answer
\* either a failure or a list of tickets of the filter's status, every ticket of the
\* collection has the status of the filter
C25_CollectionMatchesFilter ==
    (/\ mounted /\ filter # "all" /\ InflightTotal(inflight) = 0
     /\ last.op = "fetched"
     /\ last.out = "ok" => \A i \in DOMAIN last.data : last.data[i].status = filter)
        => \A i \in DOMAIN tickets : tickets[i].status = filter

\* C30: every answer to a ticket query, success or failure, sets the error state to
\* null, also the error a failed override has raised
C30_RefreshClearsError ==
    /\ [][(mounted /\ FetchHandled) => error' = NoError]_vars
    /\ []((mounted /\ last.op = "fetched") => error = NoError)

C30_Witness ==
    /\ mounted /\ last.op = "refresh"
    /\ error = "Failed to override ticket"
    /\ InflightTotal(inflight) = 1 /\ inflight[filter] = 1
    /\ ~Spinner(loading, tickets)

-----------------------------------------------------------------------------
(* Properties of the player's states *)

\* C26: clearing the selection empties the trace, and the trace is empty in every
\* state without a selected ticket, also after the answer to a trace query sent
\* before the clearing
C26_ClearedTraceStaysEmpty ==
    /\ [][traceLast'.op = "clear" => decisionSteps' = << >>]_vars
    /\ [](ticket = NoTicket => decisionSteps = << >>)

\* C27: a selection sets the loading flag, and the flag is set in every state in which
\* a trace query of the selected ticket is in flight, also while queries of several
\* selections overlap
C27_LoadingWhileFetchPending ==
    /\ [][traceLast'.op = "select" => traceLoading']_vars
    /\ []((ticket # NoTicket /\ traceFetches[ticket] > 0) => traceLoading)

\* C28: whenever the trace is not empty the pointer is one of its indices
C28_PointerWithinTrace ==
    decisionSteps # << >> => activeNode \in 0..(Len(decisionSteps) - 1)

\* C29: isAnimating is true exactly when the replay interval is armed, and a replay
\* starts only when no interval is armed, so never more than one is
C29_AnimatingIffTimerArmed ==
    /\ [](isAnimating <=> animationRef # NoTimer)
    /\ [][traceLast'.op = "start" => (animationRef = NoTimer /\ animationRef' # NoTimer)]_vars

C29_Witness ==
    /\ traceLast.op = "select"
    /\ isAnimating /\ animationRef # NoTimer
    /\ animationRef.currentNode = 1 /\ animationRef.length = 6
    /\ showFullTrace

-----------------------------------------------------------------------------
(* Specifications *)

\* the dashboard: ticket store, metrics, override
Init == DashInit /\ TraceInit /\ AggInit /\ SynthIdle
Next == DashNext
Spec == Init /\ [][Next]_vars

\* the trace player
TraceSpec == Init /\ [][TraceNext]_vars

\* the aggregator on every collection of the bounds
AggSpecInit == DashInit /\ TraceInit /\ AggInputs /\ SynthIdle
AggSpec == AggSpecInit /\ [][AggNext]_vars

\* the synthesizer on every ticket of the bounds
SynthSpecInit == DashInit /\ TraceInit /\ AggInit /\ SynthInputs
SynthSpec == SynthSpecInit /\ [][SynthNext]_vars

====
